---- MODULE Spec2Model ----
(***************************************************************************)
(* A model of the two reusable utilities of src/src/utils.rs:              *)
(*   - shard_and_solve_concurrently, the fan-out/fan-in helper: the main   *)
(*     thread, one worker thread per shard, the mpsc channel between them  *)
(*     and the consumer of the returned iterator;                          *)
(*   - Trie, the arena trie with add_word and the dynamic program          *)
(*     count_all_word_arrangements;                                        *)
(* and of the solvers of the days that use them or repeat their shape:     *)
(*   - day 7, SolverImpl::solve, the fan-out written by hand;              *)
(*   - day 14 part 2, the minimum over the sharded generations;            *)
(*   - day 18, MemorySpace::find_first_partition_byte;                     *)
(*   - day 6, LabSimulation::new and run_guard_patrol;                     *)
(*   - day 19, TowelManager::count_all_possible_designs.                   *)
(***************************************************************************)
EXTENDS Integers, Sequences, FiniteSets, TLC

\* ------------------------------------------------------------------ bounds
\* Largest value std::thread::available_parallelism() returns in the model.
MaxP == 3
\* Longest input sequence handed to shard_and_solve_concurrently.
MaxLen == 3
\* Longest freely drawn pattern.
MaxPatLen == 2
\* Most add_word calls on one freely built trie.
MaxPatterns == 2
\* Longest freely drawn target.
MaxWordLen == 4
\* The width the table's integers are scaled down to where overflow is
\* looked at.
NarrowBits == 3

\* The table's integers are u64 (line 207).  TLC's integers are narrower, so
\* wherever overflow is not the subject the width is WideBits, which no count
\* of the bounded runs comes near.
WideBits == 30

VARIABLES
    \* ---- shard_and_solve_concurrently (utils.rs:143-172)
    inputs,                 \* the items `inputs` yields, in order
    mainpc,                 \* where the calling thread is in the function
    available_parallelism,  \* the local of line 156 (0 before it is read)
    shards,                 \* shards[k], k in 0..P-1: the Vec of line 157
    i,                      \* items already taken from inputs.enumerate()
    spawned,                \* shards for which line 166 has run
    wpc,                    \* each worker thread's position
    wout,                   \* what f(shard, capture) returned in worker k
    invoked,                \* how many times worker k has called f
    senders,                \* live Sender handles of the channel
    channel,                \* messages sent and not yet received
    sendOrder,              \* history: the workers in the order they sent
    yielded,                \* what the returned iterator has yielded so far
    exhausted,              \* the iterator has returned None
    dropped,                \* the iterator (and rx with it) has been dropped
    captures,               \* the instances of C: captures[0] is the
                            \* `capture` argument, the others its clones;
                            \* the value is the set of workers that used it
    wcap,                   \* the instance moved into worker k's closure
    wsaw,                   \* the value worker k's reducer found in it
    order,                  \* the completion order the scheduler picks
                            \* (only SchedSpec constrains it)
    \* ---- Trie (utils.rs:174-288)
    tpc,                    \* where the trie's single caller is
    mode,                   \* "free": patterns and targets are drawn freely;
                            \* "range": freely, out-of-range symbols included;
                            \* "ab", "stripes", "fib": they are scripted
    iter,                   \* what is left of a scripted from_iter argument
    numAdded,               \* add_word calls so far
    inserted,               \* history: the set of words added so far
    trie_entries,           \* the arena: trie_entries[k], k from 0
    adding,                 \* add_word's argument `word`
    pos,                    \* symbols of `adding` already consumed
    last_trie_entry_index,  \* the local of lines 189 and 222
    word,                   \* count_all_word_arrangements' argument
    count_arrangements_reaching_index,  \* the table of line 212
    start_prefix,           \* the outer loop variable (line 216)
    end_prefix,             \* the inner loop variable (line 227)
    result,                 \* the value returned at line 246
    \* ---- how the crate is built
    count_bits,             \* the width of the table's unsigned integers
    overflow_checks,        \* the profile's overflow-checks setting: on, an
                            \* overflowing `+=` panics; off, it wraps
    \* ---- the days' solvers
    safety_factors,         \* day 14: safety_factors[g] is what
                            \* simulation.run(g).calculate_safety_factor()
                            \* returns, g from 1
    memory_space,           \* day 18: the MemorySpace, its fields grid and
                            \* remaining_corrupted_bytes
    search,                 \* day 18: find_first_partition_byte's locals
                            \* lo, hi, mi, its position pc and the byte ret
                            \* it returned
    lab_simulation,         \* day 6: the LabSimulation, its fields lab,
                            \* guard, visited_tiles and previous_guards
    lpc,                    \* day 6: where run_guard_patrol is
    towel_manager,          \* day 19: the TowelManager, its fields patterns
                            \* (the trie's arena) and desired_designs
    counting                \* day 19: count_all_possible_designs' argument
                            \* count_unique_designs, its local
                            \* count_possible_designs, the designs it has
                            \* looked at and its position pc

execVars == <<inputs, mainpc, available_parallelism, shards, i, spawned,
              wpc, wout, invoked, senders, channel, sendOrder, yielded,
              exhausted, dropped, captures, wcap, wsaw>>

captureVars == <<captures, wcap, wsaw>>

trieVars == <<tpc, mode, iter, numAdded, inserted, trie_entries, adding, pos,
              last_trie_entry_index, word, count_arrangements_reaching_index,
              start_prefix, end_prefix, result>>

buildVars == <<count_bits, overflow_checks>>

day14Vars == <<safety_factors>>
day18Vars == <<memory_space, search>>
day6Vars == <<lab_simulation, lpc>>
day19Vars == <<towel_manager, counting>>
dayVars == <<day14Vars, day18Vars, day6Vars, day19Vars>>

\* What the steps of day 18, of day 6 and of day 19 leave alone.
outsideDay18 ==
    <<execVars, order, trieVars, buildVars, day14Vars, day6Vars, day19Vars>>
outsideDay6 ==
    <<execVars, order, trieVars, buildVars, day14Vars, day18Vars, day19Vars>>
outsideDay19 ==
    <<execVars, order, trieVars, buildVars, day14Vars, day18Vars, day6Vars>>

vars == <<execVars, order, trieVars, buildVars, dayVars>>

\* What the executor's steps leave alone, and what the trie's steps do.
outsideExec == <<trieVars, buildVars, dayVars>>
outsideTrie == <<execVars, order, buildVars, dayVars>>

\* ------------------------------------------------------------ pure helpers
\* A Vec indexed from 0 is a function on 0..len-1.
Len0(v) == Cardinality(DOMAIN v)
Push(v, x) == [k \in 0..Len0(v) |-> IF k < Len0(v) THEN v[k] ELSE x]

RECURSIVE SumSeq(_)
SumSeq(s) == IF s = <<>> THEN 0 ELSE Head(s) + SumSeq(Tail(s))

SeqsUpTo(S, n) == UNION {[1..k -> S] : k \in 0..n}

\* The input items: two distinct values are enough to tell the items of a
\* sequence apart by position, and the reducer only adds them up.
Items == {1, 2}

Perms(S) ==
    {p \in [1..Cardinality(S) -> S] : \A a, b \in 1..Cardinality(S) :
                                         a # b => p[a] # p[b]}

Workers == 0..(available_parallelism - 1)

\* The shard the item with enumerate() index idx is pushed to (line 159).
ShardIndexBlock(idx, p) == IF idx < p THEN idx ELSE p - 1
ShardIndexReverse(idx, p) == (p - 1) - (idx % p)
ShardIndex(idx, p) == idx % p

\* Line 159: shards[..].push(input).
Overwrite(shard, x) == <<x>>
PushItem(shard, x) == Append(shard, x)

\* The reducer `f` the model runs: the sum of the shard (a partition-invariant
\* reduction).  Whether an invocation returns or panics is chosen in Reduce.
F(shard) == SumSeq(shard)

\* The value worker k sends, tagged with the sending thread.
Msg(k) == [from |-> k, out |-> wout[k]]

\* Receiver::recv finds the channel disconnected: no Sender is left.
DisconnectedWhenReturned == mainpc = "returned"
Disconnected == senders = 0

\* What recv takes out of a non-empty channel: the oldest message.
RecvIndexNewest(q) == Len(q)
RecvIndex(q) == 1

RemoveAt(q, n) == SubSeq(q, 1, n - 1) \o SubSeq(q, n + 1, Len(q))

\* ------------------------------------------------------------------- Init
\* Nothing has run yet: the state before line 155.
ExecFresh ==
    /\ mainpc = "start"
    /\ available_parallelism = 0
    /\ shards = <<>>
    /\ i = 0
    /\ spawned = 0
    /\ wpc = <<>>
    /\ wout = <<>>
    /\ invoked = <<>>
    /\ senders = 0
    /\ channel = <<>>
    /\ sendOrder = <<>>
    /\ yielded = <<>>
    /\ exhausted = FALSE
    /\ dropped = FALSE
    /\ captures = [k \in {0} |-> {}]
    /\ wcap = <<>>
    /\ wsaw = <<>>

ExecInit == inputs \in SeqsUpTo(Items, MaxLen) /\ ExecFresh

\* No call of shard_and_solve_concurrently is in progress.
ExecIdle ==
    /\ inputs = <<>>
    /\ mainpc = "idle"
    /\ available_parallelism = 0
    /\ shards = <<>>
    /\ i = 0
    /\ spawned = 0
    /\ wpc = <<>>
    /\ wout = <<>>
    /\ invoked = <<>>
    /\ senders = 0
    /\ channel = <<>>
    /\ sendOrder = <<>>
    /\ yielded = <<>>
    /\ exhausted = FALSE
    /\ dropped = FALSE
    /\ captures = <<>>
    /\ wcap = <<>>
    /\ wsaw = <<>>
    /\ order = <<>>

\* No addition of a run at WideBits overflows, so the overflow-checks
\* setting makes no difference to it.
WideBuild == count_bits = WideBits /\ overflow_checks = FALSE

\* No trie exists.
NoTrie ==
    /\ tpc = "idle"
    /\ mode = "free"
    /\ iter = <<>>
    /\ numAdded = 0
    /\ inserted = {}
    /\ trie_entries = <<>>
    /\ adding = <<>>
    /\ pos = 0
    /\ last_trie_entry_index = 0
    /\ word = <<>>
    /\ count_arrangements_reaching_index = <<>>
    /\ start_prefix = 0
    /\ end_prefix = 0
    /\ result = 0

TrieIdle == NoTrie /\ WideBuild

\* No solver of a day is running.
Day14Idle == safety_factors = <<>>
Day18Idle == memory_space = <<>> /\ search = <<>>
Day6Idle == lab_simulation = <<>> /\ lpc = "idle"
Day19Idle == towel_manager = <<>> /\ counting = <<>>
DaysIdle == Day14Idle /\ Day18Idle /\ Day6Idle /\ Day19Idle

Init == ExecInit /\ order = <<>> /\ TrieIdle /\ DaysIdle

\* ---------------------------------------------------------- the main thread
\* Lines 155-157: channel(), available_parallelism read once, P empty shards.
Start ==
    /\ mainpc = "start"
    /\ \E p \in 1..MaxP :
          /\ available_parallelism' = p
          /\ shards' = [k \in 0..(p - 1) |-> <<>>]
          /\ wpc' = [k \in 0..(p - 1) |-> "unspawned"]
          /\ wout' = [k \in 0..(p - 1) |-> 0]
          /\ invoked' = [k \in 0..(p - 1) |-> 0]
          /\ wsaw' = [k \in 0..(p - 1) |-> {}]
    /\ senders' = 1
    /\ mainpc' = "shard"
    /\ UNCHANGED <<outsideExec, order, dropped, captures, wcap, inputs, i,
                   spawned, channel, sendOrder, yielded, exhausted>>

\* Lines 158-160: one iteration of the enumerate() loop.
Shard ==
    /\ mainpc = "shard"
    /\ i < Len(inputs)
    /\ shards' = [shards EXCEPT ![ShardIndex(i, available_parallelism)] =
                                    PushItem(@, inputs[i + 1])]
    /\ i' = i + 1
    /\ UNCHANGED <<outsideExec, order, dropped, captureVars, inputs, mainpc,
                   available_parallelism, spawned, wpc, wout, invoked,
                   senders, channel, sendOrder, yielded, exhausted>>

\* Line 158: the iterator is finished, the spawn loop starts.
ShardDone ==
    /\ mainpc = "shard"
    /\ i = Len(inputs)
    /\ mainpc' = "spawn"
    /\ UNCHANGED <<outsideExec, order, dropped, captureVars, inputs,
                   available_parallelism, shards, i, spawned, wpc, wout,
                   invoked, senders, channel, sendOrder, yielded, exhausted>>

\* Which shards get a thread (line 162: every one of them).
SpawnsNonEmptyOnly(k) == shards[k] # <<>>
Spawns(k) == TRUE

\* Line 163: `capture.clone()` is a new instance of C, and it is the one
\* moved into the closure of line 166.
SharedInstance(insts) == 0
ClonedInstance(insts) == Len0(insts)

\* Lines 162-169: one iteration of `for shard in shards`: capture.clone(),
\* tx.clone() and thread::spawn.
Spawn ==
    /\ mainpc = "spawn"
    /\ spawned < available_parallelism
    /\ IF Spawns(spawned)
          THEN /\ senders' = senders + 1
               /\ wpc' = [wpc EXCEPT ![spawned] = "running"]
          ELSE UNCHANGED <<senders, wpc>>
    /\ captures' = Push(captures, captures[0])
    /\ wcap' = Push(wcap, ClonedInstance(captures))
    /\ spawned' = spawned + 1
    /\ UNCHANGED <<outsideExec, order, dropped, wsaw, inputs, mainpc,
                   available_parallelism, shards, i, wout, invoked, channel,
                   sendOrder, yielded, exhausted>>

\* The live Sender handles once the function has returned: the original `tx`
\* goes out of scope at the end of the function, the workers' clones live on.
SendersAfterReturn(n) == n - 1

\* Line 171: rx.into_iter() is returned and the original tx is dropped.
Return ==
    /\ mainpc = "spawn"
    /\ spawned = available_parallelism
    /\ mainpc' = "returned"
    /\ senders' = SendersAfterReturn(senders)
    /\ UNCHANGED <<outsideExec, order, dropped, captureVars, inputs,
                   available_parallelism, shards, i, spawned, wpc, wout,
                   invoked, channel, sendOrder, yielded, exhausted>>

\* ------------------------------------------------------- the worker threads
\* Line 167: a spawned thread calls f, whatever has become of the receiver.
MayReduceUnlessDropped(k) == ~dropped
MayReduce(k) == TRUE

\* Line 167, f(shard, capture) returns normally.  f owns the capture it is
\* given: it reads it and may write to it.
Reduce(k) ==
    /\ k \in Workers
    /\ wpc[k] = "running"
    /\ MayReduce(k)
    /\ wout' = [wout EXCEPT ![k] = F(shards[k])]
    /\ invoked' = [invoked EXCEPT ![k] = @ + 1]
    /\ wsaw' = [wsaw EXCEPT ![k] = captures[wcap[k]]]
    /\ captures' = [captures EXCEPT ![wcap[k]] = @ \cup {k}]
    /\ wpc' = [wpc EXCEPT ![k] = "sending"]
    /\ UNCHANGED <<outsideExec, order, dropped, wcap, inputs, mainpc,
                   available_parallelism, shards, i, spawned, senders,
                   channel, sendOrder, yielded, exhausted>>

\* Line 167, f(shard, capture) panics: the thread unwinds, its tx is dropped
\* and nothing is sent.  The panic stays in this thread: line 166 keeps no
\* JoinHandle and nobody joins.
ReducePanics(k) ==
    /\ k \in Workers
    /\ wpc[k] = "running"
    /\ MayReduce(k)
    /\ invoked' = [invoked EXCEPT ![k] = @ + 1]
    /\ wsaw' = [wsaw EXCEPT ![k] = captures[wcap[k]]]
    /\ captures' = [captures EXCEPT ![wcap[k]] = @ \cup {k}]
    /\ wpc' = [wpc EXCEPT ![k] = "panicked"]
    /\ senders' = senders - 1
    /\ UNCHANGED <<outsideExec, order, dropped, wcap, inputs, mainpc,
                   available_parallelism, shards, i, spawned, wout, channel,
                   sendOrder, yielded, exhausted>>

\* Line 167, tx.send(..): the receiver is alive, the value is queued.
Send(k) ==
    /\ k \in Workers
    /\ wpc[k] = "sending"
    /\ ~dropped
    /\ channel' = Append(channel, Msg(k))
    /\ sendOrder' = Append(sendOrder, k)
    /\ wpc' = [wpc EXCEPT ![k] = "sent"]
    /\ UNCHANGED <<outsideExec, order, dropped, captureVars, inputs, mainpc,
                   available_parallelism, shards, i, spawned, wout, invoked,
                   senders, yielded, exhausted>>

\* Line 168: the closure ends and drops the worker's tx.
Exit(k) ==
    /\ k \in Workers
    /\ wpc[k] = "sent"
    /\ wpc' = [wpc EXCEPT ![k] = "done"]
    /\ senders' = senders - 1
    /\ UNCHANGED <<outsideExec, order, dropped, captureVars, inputs, mainpc,
                   available_parallelism, shards, i, spawned, wout, invoked,
                   channel, sendOrder, yielded, exhausted>>

\* ------------------------------------------------------------ the consumer
\* IntoIter::next() = rx.recv().ok(), a message is waiting.
IterNextSome ==
    /\ mainpc = "returned"
    /\ ~dropped
    /\ ~exhausted
    /\ channel # <<>>
    /\ yielded' = Append(yielded, channel[RecvIndex(channel)])
    /\ channel' = RemoveAt(channel, RecvIndex(channel))
    /\ UNCHANGED <<outsideExec, order, dropped, captureVars, inputs, mainpc,
                   available_parallelism, shards, i, spawned, wpc, wout,
                   invoked, senders, sendOrder, exhausted>>

\* IntoIter::next(): the channel is empty and disconnected, recv() is Err and
\* next() is None.  (Empty and still connected: recv() blocks, no step.)
IterNextNone ==
    /\ mainpc = "returned"
    /\ ~dropped
    /\ ~exhausted
    /\ channel = <<>>
    /\ Disconnected
    /\ exhausted' = TRUE
    /\ UNCHANGED <<outsideExec, order, dropped, captureVars, inputs, mainpc,
                   available_parallelism, shards, i, spawned, wpc, wout,
                   invoked, senders, channel, sendOrder, yielded>>

\* ------------------------------------------------------------------- Next
MainNext == Start \/ Shard \/ ShardDone \/ Spawn \/ Return

WorkerStep(k) == Reduce(k) \/ ReducePanics(k) \/ Send(k) \/ Exit(k)

WorkerNext == \E k \in 0..(MaxP - 1) : WorkerStep(k)

ConsumerNext == IterNextSome \/ IterNextNone

ExecNext == MainNext \/ WorkerNext \/ ConsumerNext

Next == ExecNext

Spec == Init /\ [][Next]_vars

\* Threads are scheduled fairly: a thread that can take a step takes it.
Fairness ==
    /\ WF_vars(MainNext)
    /\ WF_vars(ConsumerNext)
    /\ \A k \in 0..(MaxP - 1) : WF_vars(WorkerStep(k))

FairSpec == Spec /\ Fairness

\* -------------------------------------------------- a chosen completion order
\* SchedSpec is Spec under a scheduler that lets the workers send in the order
\* `order`, a permutation of the shard indices chosen up front: every step of
\* SchedNext is a step of Next.
Turn(k) ==
    \A a, b \in 1..Len(order) :
        (a < b /\ order[b] = k) => wpc[order[a]] \in {"sent", "done", "panicked"}

\* The order the workers send in does not depend on what the items are: the
\* inputs of SchedSpec are the sequences of every length over one item.
SchedInit ==
    /\ ExecInit
    /\ inputs \in SeqsUpTo({1}, MaxLen)
    /\ order \in UNION {Perms(0..(p - 1)) : p \in 1..MaxP}
    /\ TrieIdle
    /\ DaysIdle

SchedStart == Start /\ available_parallelism' = Len(order)

SchedSend(k) == Send(k) /\ Turn(k)

SchedWorkerStep(k) == Reduce(k) \/ ReducePanics(k) \/ SchedSend(k) \/ Exit(k)

SchedMainNext == SchedStart \/ Shard \/ ShardDone \/ Spawn \/ Return

SchedNext ==
    \/ SchedMainNext
    \/ \E k \in 0..(MaxP - 1) : SchedWorkerStep(k)
    \/ ConsumerNext

SchedSpec ==
    /\ SchedInit
    /\ [][SchedNext]_vars
    /\ WF_vars(SchedMainNext)
    /\ WF_vars(ConsumerNext)
    /\ \A k \in 0..(MaxP - 1) : WF_vars(SchedWorkerStep(k))

\* ------------------------------------------- a consumer that may drop early
\* Line 167, tx.send(..) after the receiver was dropped: send returns Err,
\* unwrap() panics, the thread unwinds and its tx is dropped.  The reducer
\* has returned by then.
SendFails(k) ==
    /\ k \in Workers
    /\ wpc[k] = "sending"
    /\ dropped
    /\ wpc' = [wpc EXCEPT ![k] = "send_failed"]
    /\ senders' = senders - 1
    /\ UNCHANGED <<outsideExec, order, dropped, captureVars, inputs, mainpc,
                   available_parallelism, shards, i, spawned, wout, invoked,
                   channel, sendOrder, yielded, exhausted>>

\* The consumer drops the iterator of line 171, drained or not: rx goes with
\* it, and so do the values still queued.
DropIter ==
    /\ mainpc = "returned"
    /\ ~dropped
    /\ dropped' = TRUE
    /\ channel' = <<>>
    /\ UNCHANGED <<outsideExec, order, captureVars, inputs, mainpc,
                   available_parallelism, shards, i, spawned, wpc, wout,
                   invoked, senders, sendOrder, yielded, exhausted>>

DropWorkerStep(k) == WorkerStep(k) \/ SendFails(k)

DropWorkerNext == \E k \in 0..(MaxP - 1) : DropWorkerStep(k)

DropConsumerNext == ConsumerNext \/ DropIter

DropNext == MainNext \/ DropWorkerNext \/ DropConsumerNext

\* What the items are makes no difference to who runs: they are all 1.
DropInit ==
    /\ ExecInit
    /\ inputs \in SeqsUpTo({1}, MaxLen)
    /\ order = <<>>
    /\ TrieIdle
    /\ DaysIdle

\* The main thread and the workers are scheduled fairly; the consumer may
\* stop calling next() whenever it likes.
DropFairness ==
    /\ WF_vars(MainNext)
    /\ \A k \in 0..(MaxP - 1) : WF_vars(DropWorkerStep(k))

DropSpec == DropInit /\ [][DropNext]_vars /\ DropFairness

\* =========================================================================
\* Properties of shard_and_solve_concurrently
\* =========================================================================
AnyPanicked == \E k \in Workers : wpc[k] = "panicked"

Tags(q) == IF q = <<>> THEN <<>> ELSE [j \in 1..Len(q) |-> q[j].from]
Outs(q) == IF q = <<>> THEN <<>> ELSE [j \in 1..Len(q) |-> q[j].out]

Occurrences(q, k) == Cardinality({j \in 1..Len(q) : q[j].from = k})

\* C1: when the reducer returns normally on every shard, the consumer that
\* drains the iterator ends up, for good, with exactly P outputs and an
\* iterator that has reported exhaustion (it does not block forever), also
\* when there are fewer items than shards.
C1_DrainsExactlyP ==
    <>[](AnyPanicked \/ (exhausted /\ Len(yielded) = available_parallelism
                                   /\ available_parallelism >= 1))

C1_Witness ==
    /\ exhausted
    /\ ~AnyPanicked
    /\ available_parallelism = 3
    /\ Len(inputs) = 1
    /\ Len(yielded) = 3

\* C2: the reducer runs at most once per shard and, by the time the iterator
\* is exhausted, exactly once for each of the P shards (empty ones included);
\* every value a reducer returned and sent is in the channel or yielded
\* exactly once, every yielded value is what that shard's reducer returned,
\* and at exhaustion every sent value has been yielded.
C2_OncePerShardNoDropNoDup ==
    /\ \A k \in Workers :
          /\ invoked[k] <= 1
          /\ wpc[k] \in {"sent", "done"} =>
                Occurrences(yielded \o channel, k) = 1
          /\ wpc[k] \notin {"sent", "done"} =>
                Occurrences(yielded \o channel, k) = 0
    /\ \A j \in 1..Len(yielded) :
          yielded[j].out = SumSeq(shards[yielded[j].from])
    /\ exhausted =>
          \A k \in Workers :
             /\ invoked[k] = 1
             /\ wpc[k] \in {"done", "panicked"}
             /\ wpc[k] = "done" => Occurrences(yielded, k) = 1

C2_Witness ==
    /\ exhausted
    /\ ~AnyPanicked
    /\ available_parallelism = 3
    /\ inputs = <<1, 2>>
    /\ Tags(yielded) = <<2, 1, 0>>

\* C3: the item at input index idx sits in shard idx mod P, at position
\* idx div P, and the shards hold nothing else: their lengths add up to the
\* number of items taken so far.
C3_RoundRobin ==
    mainpc \in {"shard", "spawn", "returned"} =>
        /\ \A idx \in 0..(i - 1) :
              LET k == idx % available_parallelism
                  n == (idx \div available_parallelism) + 1
              IN /\ Len(shards[k]) >= n
                 /\ shards[k][n] = inputs[idx + 1]
        /\ \A k \in Workers :
              Len(shards[k]) =
                 Cardinality({idx \in 0..(i - 1) : idx % available_parallelism = k})

C3_Witness ==
    /\ mainpc = "spawn"
    /\ available_parallelism = 2
    /\ inputs = <<1, 2, 2>>
    /\ shards[0] = <<1, 2>>
    /\ shards[1] = <<2>>

\* C4: with the sum as reducer, the sum of all the outputs the drained
\* iterator yielded is the sum of the whole input, for every P and every
\* completion order.
C4_SumRoundTrip ==
    (exhausted /\ ~AnyPanicked) => SumSeq(Outs(yielded)) = SumSeq(inputs)

C4_Witness ==
    /\ exhausted
    /\ ~AnyPanicked
    /\ available_parallelism = 2
    /\ inputs = <<2, 1, 2>>
    /\ Outs(yielded) = <<1, 4>>

\* C5: a reducer that panics is fatal to the call: the iterator never ends
\* normally after a worker panicked.
C5_PanicIsFatal == AnyPanicked => ~exhausted

\* C6: the iterator reports exhaustion only when every worker has finished its
\* reducer and handed over its output, all P outputs being yielded.
C6_ExhaustedOnlyWhenAllHandedOver ==
    exhausted =>
        /\ \A k \in Workers : wpc[k] = "done" /\ Occurrences(yielded, k) = 1
        /\ Len(yielded) = available_parallelism

\* C7: the outputs are yielded in the order they were sent (the channel is
\* first in, first out), and whatever completion order the scheduler picks,
\* a permutation of the shards, is the order the outputs are yielded in.
NotPanicked(k) == wpc[k] # "panicked"

C7_YieldedInCompletionOrder ==
    /\ [](Tags(yielded) \o Tags(channel) = sendOrder)
    /\ <>[](exhausted /\ Tags(yielded) = SelectSeq(order, NotPanicked))

C7_Witness ==
    /\ exhausted
    /\ ~AnyPanicked
    /\ order = <<2, 0, 1>>
    /\ Tags(yielded) = <<2, 0, 1>>

\* The items of `in` whose enumerate() index is k modulo p, in input order:
\* what a single-threaded run puts in shard k.
EveryPth(in, p, k) ==
    [n \in 1..Cardinality({idx \in 0..(Len(in) - 1) : idx % p = k}) |->
        in[k + (n - 1) * p + 1]]

\* C16: the shards are filled before any worker exists, and from then on, in
\* every interleaving of the workers and the consumer, every shard holds
\* exactly what a single-threaded run with the same P and the same inputs
\* puts in it.
C16_ShardsDeterministic ==
    /\ mainpc = "shard" =>
          spawned = 0 /\ \A k \in Workers : wpc[k] = "unspawned"
    /\ mainpc \in {"spawn", "returned"} =>
          \A k \in Workers :
              shards[k] = EveryPth(inputs, available_parallelism, k)

\* The workers completed in the order 1, 0.
C16_Witness ==
    /\ mainpc = "returned"
    /\ available_parallelism = 2
    /\ inputs = <<1, 2, 2>>
    /\ sendOrder = <<1, 0>>
    /\ shards[0] = <<1, 2>>
    /\ shards[1] = <<2>>

\* C17: one clone of the capture is made per spawned shard; every worker owns
\* an instance that is neither the caller's nor another worker's; the only
\* thread that ever used an instance is the worker that owns it; and every
\* reducer found in its instance the value the caller passed.
C17_OwnCapturePerWorker ==
    mainpc # "idle" =>
        /\ Len0(captures) = 1 + spawned
        /\ Len0(wcap) = spawned
        /\ \A k \in DOMAIN wcap :
              /\ wcap[k] \in DOMAIN captures
              /\ wcap[k] # 0
              /\ \A j \in DOMAIN wcap : j # k => wcap[j] # wcap[k]
        /\ captures[0] = {}
        /\ \A c \in DOMAIN captures :
              \A k \in captures[c] : k \in DOMAIN wcap /\ wcap[k] = c
        /\ \A k \in Workers : invoked[k] >= 1 => wsaw[k] = {}

\* Three workers have each run the reducer on their own instance.
C17_Witness ==
    /\ mainpc = "returned"
    /\ available_parallelism = 3
    /\ \A k \in Workers : invoked[k] = 1 /\ captures[wcap[k]] = {k}
    /\ captures[0] = {}

\* Every worker has run its reducer, once, to its end: it returned the
\* shard's reduction, or the reducer itself panicked.
AllReduced ==
    /\ mainpc = "returned"
    /\ \A k \in Workers :
          /\ invoked[k] = 1
          /\ wpc[k] \notin {"unspawned", "running"}
          /\ wpc[k] # "panicked" => wout[k] = F(shards[k])

N == 5
\* Option::None in a TrieEntry's `entries` array.
None == -1
\* Stripe's discriminants (day19/mod.rs:8-14).
White == 0
Blue == 1
Black == 2
Red == 3
Green == 4

\* Freely drawn patterns and targets are over two of the five stripes.
Syms == {White, Blue}
FreeWords == SeqsUpTo(Syms, MaxPatLen)
FreeTargets == SeqsUpTo(Syms, MaxWordLen)

\* The smallest index outside the entries array, and the words and targets
\* that may hold a symbol with that index.
OutOfRange == N
RangeSyms == {White, OutOfRange}
RangeWords == SeqsUpTo(RangeSyms, MaxPatLen)
RangeTargets == SeqsUpTo(RangeSyms, MaxWordLen)

\* Day 19's worked example: r, wr, b, g, bwu, rb, gb, br, and the designs
\* brwrr and bbrgwb.
ExamplePatterns ==
    << <<Red>>, <<White, Red>>, <<Black>>, <<Green>>, <<Black, White, Blue>>,
       <<Red, Black>>, <<Green, Black>>, <<Black, Red>> >>
Brwrr == <<Black, Red, White, Red, Red>>
Bbrgwb == <<Black, Black, Red, Green, White, Black>>
\* The worked example over a two-letter alphabet: a, b, ab and the target ab.
AbPatterns == << <<White>>, <<Blue>>, <<White, Blue>> >>
Ab == <<White, Blue>>
\* The patterns a, aa, whose counts on the targets a^n are the Fibonacci
\* numbers, and targets long enough for them to pass 2^NarrowBits.
FibPatterns == << <<White>>, <<White, White>> >>
MaxFibLen == 2 * NarrowBits
FibTargets == {[k \in 1..n |-> White] : n \in 0..MaxFibLen} \cup {<<Blue, White>>}

Modes == {"free", "ab", "stripes"}
\* The modes whose patterns are drawn freely, and what they are drawn from.
FreeModes == {"free", "range"}
Words(m) == IF m = "range" THEN RangeWords ELSE FreeWords
Script(m) == IF m = "ab" THEN AbPatterns
             ELSE IF m = "stripes" THEN ExamplePatterns
             ELSE IF m = "fib" THEN FibPatterns ELSE <<>>
Targets(m) == IF m = "ab" THEN {Ab}
              ELSE IF m = "stripes" THEN {Brwrr, Bbrgwb}
              ELSE IF m = "range" THEN RangeTargets
              ELSE IF m = "fib" THEN FibTargets ELSE FreeTargets

\* TrieEntry::default (lines 281-288).
TrieEntryTerminal == [entries |-> [c \in 0..(N - 1) |-> None], terminal |-> TRUE]
TrieEntryDefault == [entries |-> [c \in 0..(N - 1) |-> None], terminal |-> FALSE]

\* TrieElement::index (day19/mod.rs:29-33): the symbol's discriminant.
Index(c) == c

\* Lines 212-213: vec![0; word.len() + 1] with element 0 set to 1.
ReachInitZero(len) == [k \in 0..len |-> 0]
ReachInitReuse(len) ==
    IF Len0(count_arrangements_reaching_index) = len + 1
       THEN count_arrangements_reaching_index
       ELSE [k \in 0..len |-> IF k = 0 THEN 1 ELSE 0]
ReachInit(len) == [k \in 0..len |-> IF k = 0 THEN 1 ELSE 0]

\* Line 222: every walk of the inner loop starts again from the root.
WalkStartStale(last) == last
WalkStart(last) == 0

\* Lines 234-235: `+=` on the table's integers overflows at 2^count_bits.
ModulusHalf(bits) == 2 ^ (bits - 1)
Modulus(bits) == 2 ^ bits

\* Line 233: does a word end at trie entry e.
EndsWordAlways(e) == TRUE
EndsWordAtLast(e) == trie_entries[last_trie_entry_index].terminal
EndsWord(e) == trie_entries[e].terminal

\* Line 194: `entries[c_index].is_none()`, the walk has no child for c_index.
ChildMissingAlways(entries, last, c_index) == TRUE
ChildMissing(entries, last, c_index) == entries[last].entries[c_index] = None

\* Line 196: `Some(self.trie_entries.len())`, the index the pushed entry gets.
NewEntryIndexLast(entries) == Len0(entries) - 1
NewEntryIndex(entries) == Len0(entries)

\* Line 204: `self.trie_entries[last_trie_entry_index].terminal = true`.
TerminatedNever(entries, last) == entries
Terminated(entries, last) == [entries EXCEPT ![last].terminal = TRUE]

\* Trie::from_iter starts from Trie::default (lines 250-257, 265).
TrieInitIn(ms) ==
    /\ tpc = "from_iter"
    /\ mode \in ms
    /\ iter = Script(mode)
    /\ numAdded = 0
    /\ inserted = {}
    /\ trie_entries = [k \in {0} |-> TrieEntryDefault]
    /\ adding = <<>>
    /\ pos = 0
    /\ last_trie_entry_index = 0
    /\ word = <<>>
    /\ count_arrangements_reaching_index = <<>>
    /\ start_prefix = 0
    /\ end_prefix = 0
    /\ result = 0

TrieInit == TrieInitIn(Modes) /\ WideBuild

\* Lines 267-268, 189: the iterator yields a word and add_word starts on it.
FromIterNextFree ==
    /\ tpc = "from_iter"
    /\ mode \in FreeModes
    /\ numAdded < MaxPatterns
    /\ \E w \in Words(mode) : adding' = w
    /\ pos' = 0
    /\ last_trie_entry_index' = 0
    /\ tpc' = "add_word"
    /\ UNCHANGED <<outsideTrie, mode, iter, numAdded, inserted, trie_entries,
                   word, count_arrangements_reaching_index, start_prefix,
                   end_prefix, result>>

FromIterNextScripted ==
    /\ tpc = "from_iter"
    /\ mode \notin FreeModes
    /\ iter # <<>>
    /\ adding' = Head(iter)
    /\ iter' = Tail(iter)
    /\ pos' = 0
    /\ last_trie_entry_index' = 0
    /\ tpc' = "add_word"
    /\ UNCHANGED <<outsideTrie, mode, numAdded, inserted, trie_entries, word,
                   count_arrangements_reaching_index, start_prefix,
                   end_prefix, result>>

\* Lines 191-202: one iteration of `for c in word`.  An index outside the
\* entries array panics.
AddWordChar ==
    /\ tpc = "add_word"
    /\ pos < Len(adding)
    /\ LET c_index == Index(adding[pos + 1])
           last == last_trie_entry_index
       IN IF c_index \notin 0..(N - 1)
             THEN /\ tpc' = "panicked"
                  /\ UNCHANGED <<trie_entries, last_trie_entry_index, pos>>
             ELSE /\ trie_entries' =
                        IF ChildMissing(trie_entries, last, c_index)
                           THEN Push([trie_entries EXCEPT
                                        ![last].entries[c_index] =
                                            NewEntryIndex(trie_entries)],
                                     TrieEntryDefault)
                           ELSE trie_entries
                  /\ last_trie_entry_index' = trie_entries'[last].entries[c_index]
                  /\ pos' = pos + 1
                  /\ tpc' = tpc
    /\ UNCHANGED <<outsideTrie, mode, iter, numAdded, inserted, adding, word,
                   count_arrangements_reaching_index, start_prefix,
                   end_prefix, result>>

\* Line 204: the entry the word ends on becomes terminal; back to from_iter.
AddWordEnd ==
    /\ tpc = "add_word"
    /\ pos = Len(adding)
    /\ trie_entries' = Terminated(trie_entries, last_trie_entry_index)
    /\ inserted' = inserted \cup {adding}
    /\ numAdded' = numAdded + 1
    /\ tpc' = "from_iter"
    /\ UNCHANGED <<outsideTrie, mode, iter, adding, pos,
                   last_trie_entry_index, word,
                   count_arrangements_reaching_index, start_prefix,
                   end_prefix, result>>

\* Line 271: the iterator is finished and the trie is returned.
FromIterEnd ==
    /\ tpc = "from_iter"
    /\ mode \in FreeModes \/ iter = <<>>
    /\ tpc' = "built"
    /\ UNCHANGED <<outsideTrie, mode, iter, numAdded, inserted, trie_entries,
                   adding, pos, last_trie_entry_index, word,
                   count_arrangements_reaching_index, start_prefix,
                   end_prefix, result>>

\* Lines 207-216: a query starts on the built trie: the first one, or one
\* more after a query has returned.
QueryCall ==
    /\ \E t \in Targets(mode) : word' = t
    /\ count_arrangements_reaching_index' = ReachInit(Len(word'))
    /\ start_prefix' = 0
    /\ end_prefix' = 0
    /\ last_trie_entry_index' = 0
    /\ result' = 0
    /\ tpc' = "outer"
    /\ UNCHANGED <<outsideTrie, mode, iter, numAdded, inserted, trie_entries,
                   adding, pos>>

QueryFirst == tpc = "built" /\ QueryCall
QueryAgain == tpc = "returned" /\ QueryCall
QueryStart == QueryFirst \/ QueryAgain

\* Lines 216-220: the table entry of this start is 0, `continue`.
OuterSkip ==
    /\ tpc = "outer"
    /\ start_prefix < Len(word)
    /\ count_arrangements_reaching_index[start_prefix] = 0
    /\ start_prefix' = start_prefix + 1
    /\ UNCHANGED <<outsideTrie, tpc, mode, iter, numAdded, inserted,
                   trie_entries, adding, pos, last_trie_entry_index, word,
                   count_arrangements_reaching_index, end_prefix, result>>

\* Lines 216-227: the walk from this start begins at the root.
OuterEnter ==
    /\ tpc = "outer"
    /\ start_prefix < Len(word)
    /\ count_arrangements_reaching_index[start_prefix] # 0
    /\ last_trie_entry_index' = WalkStart(last_trie_entry_index)
    /\ end_prefix' = start_prefix
    /\ tpc' = "inner"
    /\ UNCHANGED <<outsideTrie, mode, iter, numAdded, inserted, trie_entries,
                   adding, pos, word, count_arrangements_reaching_index,
                   start_prefix, result>>

\* Lines 216, 246: the outer loop is over, the last table entry is returned.
OuterDone ==
    /\ tpc = "outer"
    /\ start_prefix = Len(word)
    /\ result' = count_arrangements_reaching_index[Len(word)]
    /\ tpc' = "returned"
    /\ UNCHANGED <<outsideTrie, mode, iter, numAdded, inserted, trie_entries,
                   adding, pos, last_trie_entry_index, word,
                   count_arrangements_reaching_index, start_prefix, end_prefix>>

\* Lines 236-237: what a pattern that ends here adds to the table entry.
AddendOne(reach, start) == 1
Addend(reach, start) == reach[start]

\* Lines 228-239: the entry has a child for the symbol (an index outside the
\* entries array panics; so does an overflowing `+=` when overflow checks are
\* on, and it wraps when they are off).
InnerSome ==
    /\ tpc = "inner"
    /\ end_prefix < Len(word)
    /\ LET c_index == Index(word[end_prefix + 1])
       IN IF c_index \notin 0..(N - 1)
             THEN /\ tpc' = "panicked"
                  /\ UNCHANGED <<count_arrangements_reaching_index,
                                 last_trie_entry_index, end_prefix>>
             ELSE LET current_trie_entry_index ==
                          trie_entries[last_trie_entry_index].entries[c_index]
                      sum == count_arrangements_reaching_index[end_prefix + 1]
                             + Addend(count_arrangements_reaching_index,
                                      start_prefix)
                  IN /\ current_trie_entry_index # None
                     /\ IF /\ EndsWord(current_trie_entry_index)
                           /\ sum >= Modulus(count_bits)
                           /\ overflow_checks
                           THEN /\ tpc' = "panicked"
                                /\ UNCHANGED <<count_arrangements_reaching_index,
                                               last_trie_entry_index, end_prefix>>
                           ELSE /\ count_arrangements_reaching_index' =
                                      IF EndsWord(current_trie_entry_index)
                                         THEN [count_arrangements_reaching_index EXCEPT
                                                 ![end_prefix + 1] =
                                                     sum % Modulus(count_bits)]
                                         ELSE count_arrangements_reaching_index
                                /\ last_trie_entry_index' = current_trie_entry_index
                                /\ end_prefix' = end_prefix + 1
                                /\ tpc' = tpc
    /\ UNCHANGED <<outsideTrie, mode, iter, numAdded, inserted, trie_entries,
                   adding, pos, word, start_prefix, result>>

\* Lines 229, 241: no child for the symbol, `break`.
InnerNone ==
    /\ tpc = "inner"
    /\ end_prefix < Len(word)
    /\ Index(word[end_prefix + 1]) \in 0..(N - 1)
    /\ trie_entries[last_trie_entry_index].entries[Index(word[end_prefix + 1])] = None
    /\ start_prefix' = start_prefix + 1
    /\ tpc' = "outer"
    /\ UNCHANGED <<outsideTrie, mode, iter, numAdded, inserted, trie_entries,
                   adding, pos, last_trie_entry_index, word,
                   count_arrangements_reaching_index, end_prefix, result>>

\* Line 227: the inner range is finished.
InnerDone ==
    /\ tpc = "inner"
    /\ end_prefix = Len(word)
    /\ start_prefix' = start_prefix + 1
    /\ tpc' = "outer"
    /\ UNCHANGED <<outsideTrie, mode, iter, numAdded, inserted, trie_entries,
                   adding, pos, last_trie_entry_index, word,
                   count_arrangements_reaching_index, end_prefix, result>>

TrieNext ==
    \/ FromIterNextFree \/ FromIterNextScripted \/ AddWordChar \/ AddWordEnd
    \/ FromIterEnd \/ QueryStart \/ OuterSkip \/ OuterEnter \/ OuterDone
    \/ InnerSome \/ InnerNone \/ InnerDone

\* A trie is built and queried while no sharded call is in progress.
TrieSpecInit == TrieInit /\ ExecIdle /\ DaysIdle

TrieSpec == TrieSpecInit /\ [][TrieNext]_vars

\* Tries built from and queried with sequences that may hold a symbol whose
\* index is outside the entries array.
RangeNext ==
    \/ FromIterNextFree \/ AddWordChar \/ AddWordEnd
    \/ FromIterEnd \/ QueryStart \/ OuterSkip \/ OuterEnter \/ OuterDone
    \/ InnerSome \/ InnerNone \/ InnerDone

RangeSpecInit ==
    TrieInitIn({"range"}) /\ WideBuild /\ ExecIdle /\ DaysIdle

RangeSpec == RangeSpecInit /\ [][RangeNext]_vars

\* The trie of a, aa queried at the narrow width, under either setting of
\* overflow checks.
OverflowNext ==
    \/ FromIterNextScripted \/ AddWordChar \/ AddWordEnd
    \/ FromIterEnd \/ QueryStart \/ OuterSkip \/ OuterEnter \/ OuterDone
    \/ InnerSome \/ InnerNone \/ InnerDone

OverflowSpecInit ==
    /\ TrieInitIn({"fib"})
    /\ count_bits = NarrowBits
    /\ overflow_checks \in BOOLEAN
    /\ ExecIdle
    /\ DaysIdle

OverflowSpec == OverflowSpecInit /\ [][OverflowNext]_vars

\* The oracle: the number of ways to split t into consecutive non-empty
\* pieces that are all in S, by enumeration of the first piece.
RECURSIVE Ways(_, _), WaysFirst(_, _, _)
Ways(S, t) == IF t = <<>> THEN 1 ELSE WaysFirst(S, t, 1)
WaysFirst(S, t, k) ==
    IF k > Len(t) THEN 0
    ELSE (IF SubSeq(t, 1, k) \in S THEN Ways(S, SubSeq(t, k + 1, Len(t))) ELSE 0)
         + WaysFirst(S, t, k + 1)

\* =========================================================================
\* Properties of Trie
\* =========================================================================
\* C8: the value count_all_word_arrangements returns is the number of ways to
\* split the whole target into consecutive non-empty pieces that are all
\* patterns added to the trie, as counted by enumeration.
C8_CountEqualsEnumeration ==
    tpc = "returned" => result = Ways(inserted \ {<<>>}, word)

C8_Witness ==
    /\ tpc = "returned"
    /\ inserted = {<<White>>, <<White, White>>}
    /\ word = <<White, White, White, White>>
    /\ result = 5

\* C9: the worked examples: with a, b, ab the target ab counts 2; with r, wr,
\* b, g, bwu, rb, gb, br the target brwrr counts 2 and bbrgwb counts 0.
C9_WorkedExamples ==
    tpc = "returned" =>
        /\ (mode = "ab" /\ word = Ab) => result = 2
        /\ (mode = "stripes" /\ word = Brwrr) => result = 2
        /\ (mode = "stripes" /\ word = Bbrgwb) => result = 0

C9_Witness ==
    /\ tpc = "returned"
    /\ mode = "stripes"
    /\ numAdded = 8
    /\ word = Brwrr
    /\ result = 2

\* C10: on a trie built from no pattern at all, every non-empty target counts
\* 0 and the empty target counts 1.
C10_EmptyPatternSet ==
    (tpc = "returned" /\ numAdded = 0) =>
        result = (IF word = <<>> THEN 1 ELSE 0)

C10_Witness ==
    /\ tpc = "returned"
    /\ numAdded = 0
    /\ Len0(trie_entries) = 1
    /\ word = <<White, Blue>>
    /\ result = 0

\* Can t be cut into two or more consecutive non-empty pieces that are all
\* in S.
Splittable(S, t) ==
    \E k \in 1..(Len(t) - 1) :
        /\ SubSeq(t, 1, k) \in S
        /\ Ways(S \ {<<>>}, SubSeq(t, k + 1, Len(t))) > 0

\* C11: a query whose target is a non-empty pattern that was inserted returns
\* at least 1, and exactly 1 when the pattern is not a concatenation of two
\* or more inserted patterns.
C11_InsertedPatternCounts ==
    (tpc = "returned" /\ word # <<>> /\ word \in inserted) =>
        /\ result >= 1
        /\ ~Splittable(inserted, word) => result = 1

C11_Witness ==
    /\ tpc = "returned"
    /\ inserted = {<<White>>, <<White, Blue>>}
    /\ word = <<White, Blue>>
    /\ ~Splittable(inserted, word)
    /\ result = 1

\* The walk from entry e along seq: the entry it ends on, or None when a
\* child is missing on the way.
RECURSIVE WalkFrom(_, _, _)
WalkFrom(entries, e, seq) ==
    IF seq = <<>> THEN e
    ELSE LET next == entries[e].entries[Index(Head(seq))]
         IN IF next = None THEN None ELSE WalkFrom(entries, next, Tail(seq))

\* A sequence is in the trie iff the walk from the root ends on a terminal
\* entry.
Member(entries, seq) ==
    LET e == WalkFrom(entries, 0, seq)
    IN e # None /\ entries[e].terminal

\* The sequences membership is probed with: one symbol longer than the
\* longest freely drawn pattern, over the whole alphabet for scripted tries.
Probes(m) ==
    IF m \in FreeModes THEN SeqsUpTo(Syms, MaxPatLen + 1)
    ELSE SeqsUpTo(0..(N - 1), MaxPatLen + 1)

\* C12: between insertions and once built, a sequence is a member of the
\* trie iff it was inserted; a pattern and its inserted proper prefix are
\* both members, a proper prefix that was not inserted is not.
C12_MemberIffInserted ==
    tpc \in {"from_iter", "built"} =>
        \A s \in Probes(mode) : Member(trie_entries, s) <=> s \in inserted

C12_Witness ==
    /\ tpc = "built"
    /\ mode = "stripes"
    /\ Member(trie_entries, <<Black>>)
    /\ Member(trie_entries, <<Black, White, Blue>>)
    /\ ~Member(trie_entries, <<Black, White>>)
    /\ ~Member(trie_entries, <<White>>)

\* add_word (lines 188-205) as a function of the arena: the walk of
\* `for c in word` from entry `last`, then the terminal flag.
RECURSIVE AddWordWalk(_, _, _)
AddWordWalk(entries, last, w) ==
    IF w = <<>> THEN Terminated(entries, last)
    ELSE LET c_index == Index(Head(w))
             grown == IF ChildMissing(entries, last, c_index)
                         THEN Push([entries EXCEPT
                                      ![last].entries[c_index] =
                                          NewEntryIndex(entries)],
                                   TrieEntryDefault)
                         ELSE entries
         IN AddWordWalk(grown, grown[last].entries[c_index], Tail(w))

\* Trie::from_iter (lines 259-273) as a function of the list of words.
RECURSIVE FromIter(_, _)
FromIter(entries, words) ==
    IF words = <<>> THEN entries
    ELSE FromIter(AddWordWalk(entries, 0, Head(words)), Tail(words))

\* count_all_word_arrangements (lines 207-247) as a function of the arena
\* and the target: the inner walk from `last` at end_prefix = e, and the
\* outer loop from start_prefix = s.
RECURSIVE InnerWalk(_, _, _, _, _, _)
InnerWalk(entries, w, reach, s, e, last) ==
    IF e = Len(w) THEN reach
    ELSE LET current == entries[last].entries[Index(w[e + 1])]
         IN IF current = None THEN reach
            ELSE InnerWalk(entries, w,
                           IF entries[current].terminal
                              THEN [reach EXCEPT ![e + 1] = @ + reach[s]]
                              ELSE reach,
                           s, e + 1, current)

RECURSIVE OuterLoop(_, _, _, _)
OuterLoop(entries, w, reach, s) ==
    IF s = Len(w) THEN reach[Len(w)]
    ELSE OuterLoop(entries, w,
                   IF reach[s] = 0 THEN reach
                   ELSE InnerWalk(entries, w, reach, s, s, 0),
                   s + 1)

CountAllWordArrangements(entries, w) ==
    OuterLoop(entries, w, [k \in 0..Len(w) |-> IF k = 0 THEN 1 ELSE 0], 0)

\* The patterns of S as a list without duplicates, in one fixed order.
RECURSIVE ListOf(_)
ListOf(S) ==
    IF S = {} THEN <<>>
    ELSE LET w == CHOOSE x \in S : TRUE IN <<w>> \o ListOf(S \ {w})

\* The trie a second run builds from the same patterns, listed once each in
\* the fixed order.
Canonical(S) == FromIter([k \in {0} |-> TrieEntryDefault], ListOf(S))

\* C13: the trie built from a list, in whatever order and with whatever
\* duplicates, accepts the same sequences as the trie built from the list's
\* set of patterns in the fixed order, and its queries return the same counts.
C13_DependsOnSetOnly ==
    /\ tpc = "built" =>
          \A s \in Probes(mode) :
              Member(trie_entries, s) <=> Member(Canonical(inserted), s)
    /\ tpc = "returned" =>
          result = CountAllWordArrangements(Canonical(inserted), word)

\* The patterns a and b inserted in the order that is not the fixed one: the
\* arena differs from the second run's, the answer does not.
C13_Witness ==
    /\ tpc = "returned"
    /\ numAdded = 2
    /\ inserted = {<<White>>, <<Blue>>}
    /\ trie_entries # Canonical(inserted)
    /\ word = <<White, Blue>>
    /\ result = 1

\* Does the sequence hold a symbol whose index is outside the entries array.
HasOutOfRange(seq) == \E k \in 1..Len(seq) : Index(seq[k]) \notin 0..(N - 1)

\* C14: no insertion of a word with an out-of-range symbol completes, and no
\* query with a target that holds an out-of-range symbol returns a count.
C14_OutOfRangeFailsFast ==
    /\ \A w \in inserted : ~HasOutOfRange(w)
    /\ tpc = "returned" => ~HasOutOfRange(word)

\* add_word indexes the entries array with every symbol of the word, so no
\* word with an out-of-range symbol is ever inserted.
AddWordFailsFast == \A w \in inserted : ~HasOutOfRange(w)

\* The true number of arrangements of the first k symbols of t.
TrueCount(S, t, k) == Ways(S \ {<<>>}, SubSeq(t, 1, k))

\* Every table entry, and the value returned, is the true count.
TableIsExact ==
    /\ \A k \in 0..Len(word) :
           count_arrangements_reaching_index[k] = TrueCount(inserted, word, k)
    /\ result = TrueCount(inserted, word, Len(word))

\* C15 as stated: whatever the patterns and the target, a query that returns
\* leaves the true counts in the table and returns the true count.
C15_NoSilentOverflow == tpc = "returned" => TableIsExact

\* C15: a query whose true counts are all below 2^count_bits leaves the true
\* counts in the table and returns the true count.
C15_ExactBelowModulus ==
    (/\ tpc = "returned"
     /\ \A k \in 0..Len(word) :
            TrueCount(inserted, word, k) < 2 ^ count_bits) => TableIsExact

\* A count that needs the top bit of the narrow width.
C15_Witness ==
    /\ tpc = "returned"
    /\ count_bits = NarrowBits
    /\ ~overflow_checks
    /\ 2 * result >= 2 ^ count_bits
    /\ result = TrueCount(inserted, word, Len(word))

\* The caller is in a query, or between two queries.
Querying == tpc \in {"built", "outer", "inner", "returned"}

\* C18: no step of a query, and no step between queries, changes the arena;
\* and every query, the first or a later one, returns what the query
\* computes on that arena from a fresh table.
C18_QueryLeavesTrieUnchanged ==
    /\ [][Querying => trie_entries' = trie_entries]_vars
    /\ [](tpc = "returned" =>
            result = CountAllWordArrangements(trie_entries, word))

\* A query has returned and the arena is still the one from_iter built from
\* the list a, b, ab.
C18_Witness ==
    /\ tpc = "returned"
    /\ mode = "ab"
    /\ word = Ab
    /\ result = 2
    /\ trie_entries = FromIter([k \in {0} |-> TrieEntryDefault], AbPatterns)

\* The child links of the arena: <<n, c>> where entry n has a child for c.
Links(entries) ==
    {l \in (DOMAIN entries) \X (0..(N - 1)) : entries[l[1]].entries[l[2]] # None}

\* The entries reachable from those of `seen` through child links.
RECURSIVE ReachableFrom(_, _)
ReachableFrom(entries, seen) ==
    LET more == seen \cup {entries[l[1]].entries[l[2]] :
                              l \in {x \in Links(entries) : x[1] \in seen}}
    IN IF more = seen THEN seen ELSE ReachableFrom(entries, more)

\* C19: after every insertion the arena is a tree rooted at entry 0: every
\* child link points to an existing entry with a larger index than its
\* parent's, every entry but the root is the child of exactly one (entry,
\* symbol) pair, the root of none, and every entry is reachable from the root.
C19_ArenaIsTree ==
    tpc \in {"from_iter", "built"} =>
        /\ 0 \in DOMAIN trie_entries
        /\ \A l \in Links(trie_entries) :
              /\ trie_entries[l[1]].entries[l[2]] \in DOMAIN trie_entries
              /\ trie_entries[l[1]].entries[l[2]] > l[1]
        /\ \A e \in DOMAIN trie_entries :
              Cardinality({l \in Links(trie_entries) :
                              trie_entries[l[1]].entries[l[2]] = e})
                  = (IF e = 0 THEN 0 ELSE 1)
        /\ ReachableFrom(trie_entries, {0}) = DOMAIN trie_entries

\* The arena of the day 19 example: the root and ten more entries.
C19_Witness ==
    /\ tpc = "built"
    /\ mode = "stripes"
    /\ Len0(trie_entries) = 11
    /\ ReachableFrom(trie_entries, {0}) = 0..10

\* =========================================================================
\* Day 7: SolverImpl::solve (day7/mod.rs:71-115), a fan-out written by hand
\* =========================================================================
\* The function shards the lines of the file over P threads, each thread
\* parses and solves its lines and sends one local total, and the main thread
\* adds up P received values.  Day 6 part 2 (day6/mod.rs:223-252) is the same
\* code over obstruction sites, with a worker that cannot fail.  The model
\* runs on the executor's variables: `inputs` is file.lines(), `shards` is
\* sharded_lines, wout[k] is local_total_calibration_result of thread k and
\* `yielded` is what rx.recv() has returned so far.

\* A line that is a solvable equation adds its value (1 or 2) to the total; a
\* line that is no equation makes line.parse() return Err (lines 48-64).
Malformed == -1
Lines == {1, 2, Malformed}

\* Line 79: the shard of the line with enumerate() index idx.
LineShardIndexFirst(idx, p) == 0
LineShardIndex(idx, p) == idx % p

\* Lines 110-112: how many values the main thread waits for.
RecvCount(p) == p

\* Line 108: total_calibration_result, the sum of the values received.
total_calibration_result == SumSeq(Outs(yielded))

\* The state before line 75.
Day7Init ==
    /\ inputs \in SeqsUpTo(Lines, MaxLen)
    /\ ExecFresh
    /\ order = <<>>
    /\ TrieIdle
    /\ DaysIdle

\* Lines 75-77: channel(), available_parallelism, P empty shards.
Day7Start ==
    /\ mainpc = "start"
    /\ \E p \in 1..MaxP :
          /\ available_parallelism' = p
          /\ shards' = [k \in 0..(p - 1) |-> <<>>]
          /\ wpc' = [k \in 0..(p - 1) |-> "unspawned"]
          /\ wout' = [k \in 0..(p - 1) |-> 0]
    /\ senders' = 1
    /\ mainpc' = "shard"
    /\ UNCHANGED <<outsideExec, order, dropped, captureVars, invoked, inputs,
                   i, spawned, channel, sendOrder, yielded, exhausted>>

\* Lines 78-80: one iteration of the enumerate() loop.
Day7Shard ==
    /\ mainpc = "shard"
    /\ i < Len(inputs)
    /\ shards' = [shards EXCEPT ![LineShardIndex(i, available_parallelism)] =
                                    Append(@, inputs[i + 1])]
    /\ i' = i + 1
    /\ UNCHANGED <<outsideExec, order, dropped, captureVars, invoked, inputs,
                   mainpc, available_parallelism, spawned, wpc, wout,
                   senders, channel, sendOrder, yielded, exhausted>>

\* Line 78: no line is left, the spawn loop starts.
Day7ShardDone ==
    /\ mainpc = "shard"
    /\ i = Len(inputs)
    /\ mainpc' = "spawn"
    /\ UNCHANGED <<outsideExec, order, dropped, captureVars, invoked, inputs,
                   available_parallelism, shards, i, spawned, wpc, wout,
                   senders, channel, sendOrder, yielded, exhausted>>

\* Lines 82-106: one iteration of `for sharded_line in sharded_lines`:
\* tx.clone() and thread::spawn, for every shard, empty or not.
Day7Spawn ==
    /\ mainpc = "spawn"
    /\ spawned < available_parallelism
    /\ senders' = senders + 1
    /\ wpc' = [wpc EXCEPT ![spawned] = "running"]
    /\ spawned' = spawned + 1
    /\ UNCHANGED <<outsideExec, order, dropped, captureVars, invoked, inputs,
                   mainpc, available_parallelism, shards, i, wout, channel,
                   sendOrder, yielded, exhausted>>

\* Line 108: the spawn loop is over.  The original `tx` of line 75 is a local
\* of solve: it is neither moved nor dropped before the function ends.
Day7SpawnDone ==
    /\ mainpc = "spawn"
    /\ spawned = available_parallelism
    /\ mainpc' = "recv"
    /\ UNCHANGED <<outsideExec, order, dropped, captureVars, invoked, inputs,
                   available_parallelism, shards, i, spawned, wpc, wout,
                   senders, channel, sendOrder, yielded, exhausted>>

\* Lines 87-101, every line of the shard parses: the thread has its local
\* total.
Day7Solve(k) ==
    /\ k \in Workers
    /\ wpc[k] = "running"
    /\ \A n \in 1..Len(shards[k]) : shards[k][n] # Malformed
    /\ wout' = [wout EXCEPT ![k] = SumSeq(shards[k])]
    /\ wpc' = [wpc EXCEPT ![k] = "sending"]
    /\ UNCHANGED <<outsideExec, order, dropped, captureVars, invoked, inputs,
                   mainpc, available_parallelism, shards, i, spawned,
                   senders, channel, sendOrder, yielded, exhausted>>

\* Line 90, line.parse() is Err on some line of the shard: unwrap() panics,
\* the thread prints the panic message and unwinds, its tx is dropped and
\* nothing is sent.  No JoinHandle is kept (line 86), so the panic stays in
\* this thread.
Day7ParsePanics(k) ==
    /\ k \in Workers
    /\ wpc[k] = "running"
    /\ \E n \in 1..Len(shards[k]) : shards[k][n] = Malformed
    /\ wpc' = [wpc EXCEPT ![k] = "panicked"]
    /\ senders' = senders - 1
    /\ UNCHANGED <<outsideExec, order, dropped, captureVars, invoked, inputs,
                   mainpc, available_parallelism, shards, i, spawned, wout,
                   channel, sendOrder, yielded, exhausted>>

\* Line 104: tx.send(local_total_calibration_result); rx lives until solve
\* returns, so the value is queued.
Day7Send(k) ==
    /\ k \in Workers
    /\ wpc[k] = "sending"
    /\ channel' = Append(channel, Msg(k))
    /\ sendOrder' = Append(sendOrder, k)
    /\ wpc' = [wpc EXCEPT ![k] = "sent"]
    /\ UNCHANGED <<outsideExec, order, dropped, captureVars, invoked, inputs,
                   mainpc, available_parallelism, shards, i, spawned, wout,
                   senders, yielded, exhausted>>

\* Line 105: the closure ends and drops the thread's tx.
Day7Exit(k) ==
    /\ k \in Workers
    /\ wpc[k] = "sent"
    /\ wpc' = [wpc EXCEPT ![k] = "done"]
    /\ senders' = senders - 1
    /\ UNCHANGED <<outsideExec, order, dropped, captureVars, invoked, inputs,
                   mainpc, available_parallelism, shards, i, spawned, wout,
                   channel, sendOrder, yielded, exhausted>>

\* Lines 110-112, one iteration: rx.recv() returns the oldest queued value.
\* On an empty channel recv() blocks while any Sender lives, and returns Err
\* only once all are gone; the `tx` of line 75 lives through the loop, so on
\* an empty channel this thread takes no step.
Day7Recv ==
    /\ mainpc = "recv"
    /\ Len(yielded) < RecvCount(available_parallelism)
    /\ channel # <<>>
    /\ yielded' = Append(yielded, Head(channel))
    /\ channel' = Tail(channel)
    /\ UNCHANGED <<outsideExec, order, dropped, captureVars, invoked, inputs,
                   mainpc, available_parallelism, shards, i, spawned, wpc,
                   wout, senders, sendOrder, exhausted>>

\* Lines 114-115: the loop is over, the total is printed and solve returns,
\* dropping tx and rx.
Day7Print ==
    /\ mainpc = "recv"
    /\ Len(yielded) = RecvCount(available_parallelism)
    /\ mainpc' = "printed"
    /\ senders' = senders - 1
    /\ UNCHANGED <<outsideExec, order, dropped, captureVars, invoked, inputs,
                   available_parallelism, shards, i, spawned, wpc, wout,
                   channel, sendOrder, yielded, exhausted>>

Day7MainNext ==
    \/ Day7Start
    \/ Day7Shard
    \/ Day7ShardDone
    \/ Day7Spawn
    \/ Day7SpawnDone
    \/ Day7Recv
    \/ Day7Print

Day7WorkerStep(k) ==
    Day7Solve(k) \/ Day7ParsePanics(k) \/ Day7Send(k) \/ Day7Exit(k)

Day7Next == Day7MainNext \/ \E k \in 0..(MaxP - 1) : Day7WorkerStep(k)

\* Every thread that can take a step takes it.
Day7Spec ==
    /\ Day7Init
    /\ [][Day7Next]_vars
    /\ WF_vars(Day7MainNext)
    /\ \A k \in 0..(MaxP - 1) : WF_vars(Day7WorkerStep(k))

\* The file holds a line that does not parse.
HasMalformed == \E n \in 1..Len(inputs) : inputs[n] = Malformed

\* The process is over: the total was printed and solve returned.
Day7Terminated == mainpc = "printed"

\* C21: when a line fails to parse inside a worker the program terminates,
\* the main thread does not wait for ever for its P results.
C21_ParseFailureTerminates == HasMalformed => <>Day7Terminated

\* C29: when no worker fails, the hand-written fan-out behaves like
\* shard_and_solve_concurrently followed by a sum, in every interleaving:
\* line i goes to shard i mod P, every worker sends at most once, and when
\* the total is printed (which then happens) the main thread has received
\* exactly P values, one of each worker, and their sum is the total a single
\* thread computes over the whole file.
C29_FanOutLikeExecutor ==
    /\ [](/\ mainpc \in {"spawn", "recv", "printed"} =>
                \A k \in Workers :
                    shards[k] = EveryPth(inputs, available_parallelism, k)
          /\ \A k \in Workers :
                Cardinality({j \in 1..Len(sendOrder) : sendOrder[j] = k}) <= 1
          /\ mainpc = "printed" =>
                /\ Len(yielded) = available_parallelism
                /\ \A k \in Workers : Occurrences(yielded, k) = 1
                /\ total_calibration_result = SumSeq(inputs))
    /\ (~HasMalformed => <>Day7Terminated)

\* Three lines over two workers, the second worker sending first.
C29_Witness ==
    /\ mainpc = "printed"
    /\ inputs = <<2, 1, 2>>
    /\ available_parallelism = 2
    /\ sendOrder = <<1, 0>>
    /\ total_calibration_result = 5

\* =========================================================================
\* Day 14 part 2: SolverImpl::solve_part2 (day14/mod.rs:184-218)
\* =========================================================================
\* solve_part2 calls shard_and_solve_concurrently over the generations `1..n`
\* (n = 10000 in the source) with the simulation as capture, and takes the
\* minimum of what the iterator yields.  The model is the executor with the
\* reducer of lines 194-208 in the place of f; what the simulation computes
\* for a generation is the given function safety_factors.

\* The values calculate_safety_factor() takes: two are enough for several
\* generations to reach the minimum.
Factors == {0, 1}

\* usize::MAX (line 195): above every safety factor.
UsizeMax == 2 ^ WideBits - 1

\* Line 201: whether a generation replaces the minimum found so far.
ImprovesOrTies(next_safety_factor, min_safety_factor) ==
    next_safety_factor <= min_safety_factor
Improves(next_safety_factor, min_safety_factor) ==
    next_safety_factor < min_safety_factor

\* Lines 198-205: the loop over the shard's generations, from the minimum and
\* the generation of the simulation kept so far (None: no simulation yet).
RECURSIVE MinScan(_, _, _)
MinScan(generations, min_safety_factor, min_generation) ==
    IF generations = <<>>
    THEN <<min_safety_factor, min_generation>>
    ELSE LET generation == Head(generations)
             next_safety_factor == safety_factors[generation]
         IN  IF Improves(next_safety_factor, min_safety_factor)
             THEN MinScan(Tail(generations), next_safety_factor, generation)
             ELSE MinScan(Tail(generations), min_safety_factor,
                          min_generation)

\* Lines 195-205: the reducer up to its return statement.
ShardMin(generations) == MinScan(generations, UsizeMax, None)

\* The order of tuples (usize, usize): lexicographic.
PairGreater(a, b) == a[1] > b[1] \/ (a[1] = b[1] /\ a[2] > b[2])

\* Iterator::min (line 210) over the values in the order they were yielded:
\* a later value replaces the minimum only when the minimum is greater.
RECURSIVE IterMin(_, _)
IterMin(q, least) ==
    IF q = <<>> THEN least
    ELSE IterMin(Tail(q), IF PairGreater(least, Head(q)) THEN Head(q)
                          ELSE least)

\* Lines 191-211: (min_safety_factor, min_generation), once the iterator is
\* exhausted.
min_result == IterMin(Tail(Outs(yielded)), Head(Outs(yielded)))

\* Line 185-192: the simulation is parsed, the range of generations is the
\* input.
Day14Init ==
    /\ \E n \in 1..MaxLen :
          /\ inputs = [g \in 1..n |-> g]
          /\ safety_factors \in [1..n -> Factors]
    /\ ExecFresh
    /\ order = <<>>
    /\ TrieIdle
    /\ Day18Idle
    /\ Day6Idle
    /\ Day19Idle

\* Line 167 with the reducer of lines 194-208 on a shard that holds a
\* generation: min_simulation is Some, the pair is returned.
Day14Reduce(k) ==
    /\ k \in Workers
    /\ wpc[k] = "running"
    /\ ShardMin(shards[k])[2] # None
    /\ wout' = [wout EXCEPT ![k] = ShardMin(shards[k])]
    /\ invoked' = [invoked EXCEPT ![k] = @ + 1]
    /\ wsaw' = [wsaw EXCEPT ![k] = captures[wcap[k]]]
    /\ captures' = [captures EXCEPT ![wcap[k]] = @ \cup {k}]
    /\ wpc' = [wpc EXCEPT ![k] = "sending"]
    /\ UNCHANGED <<outsideExec, order, dropped, wcap, inputs, mainpc,
                   available_parallelism, shards, i, spawned, senders,
                   channel, sendOrder, yielded, exhausted>>

\* Line 207: min_simulation is still None, unwrap() panics; the thread
\* unwinds, its tx is dropped and nothing is sent.
Day14ReducePanics(k) ==
    /\ k \in Workers
    /\ wpc[k] = "running"
    /\ ShardMin(shards[k])[2] = None
    /\ invoked' = [invoked EXCEPT ![k] = @ + 1]
    /\ wsaw' = [wsaw EXCEPT ![k] = captures[wcap[k]]]
    /\ captures' = [captures EXCEPT ![wcap[k]] = @ \cup {k}]
    /\ wpc' = [wpc EXCEPT ![k] = "panicked"]
    /\ senders' = senders - 1
    /\ UNCHANGED <<outsideExec, order, dropped, wcap, inputs, mainpc,
                   available_parallelism, shards, i, spawned, wout, channel,
                   sendOrder, yielded, exhausted>>

\* Lines 210-217: min() has drained the iterator, some pair was yielded (the
\* range is not empty, so shard 0 holds a generation), unwrap() returns it
\* and the result is printed.
Day14Print ==
    /\ mainpc = "returned"
    /\ exhausted
    /\ yielded # <<>>
    /\ mainpc' = "printed"
    /\ UNCHANGED <<outsideExec, order, dropped, captureVars, inputs,
                   available_parallelism, shards, i, spawned, wpc, wout,
                   invoked, senders, channel, sendOrder, yielded, exhausted>>

Day14WorkerStep(k) ==
    Day14Reduce(k) \/ Day14ReducePanics(k) \/ Send(k) \/ Exit(k)

Day14Next ==
    \/ MainNext
    \/ \E k \in 0..(MaxP - 1) : Day14WorkerStep(k)
    \/ ConsumerNext
    \/ Day14Print

Day14Spec == Day14Init /\ [][Day14Next]_vars

\* C22: the reducer of day 14 part 2 returns a value on an empty shard: no
\* worker whose shard is empty fails.
C22_ReducerReturnsOnEmptyShard ==
    \A k \in Workers : shards[k] = <<>> => wpc[k] # "panicked"

\* The least safety factor of the generations 1..n, and the first generation
\* that has it.
LeastFactor ==
    CHOOSE f \in Factors :
        /\ \E g \in 1..Len(inputs) : safety_factors[g] = f
        /\ \A g \in 1..Len(inputs) : safety_factors[g] >= f
FirstLeast ==
    CHOOSE g \in 1..Len(inputs) :
        /\ safety_factors[g] = LeastFactor
        /\ \A h \in 1..(g - 1) : safety_factors[h] # LeastFactor

\* C25: whatever P is and in whatever order the workers complete, part 2
\* reports the minimum safety factor over all generations and the smallest
\* generation that reaches it.
C25_MinimumThenEarliest ==
    mainpc = "printed" => min_result = <<LeastFactor, FirstLeast>>

\* Generations 2 and 3 tie for the minimum and sit in different shards, and
\* the shard of generation 3 is received first.
C25_Witness ==
    /\ mainpc = "printed"
    /\ available_parallelism = 2
    /\ safety_factors = <<1, 0, 0>>
    /\ Tags(yielded) = <<0, 1>>
    /\ min_result = <<0, 2>>

\* =========================================================================
\* Day 18: MemorySpace::find_first_partition_byte (day18/mod.rs:151-208)
\* =========================================================================
\* The side of the memory space (line 46), kept small: start is (1, 1) and
\* exit is (GridSize, GridSize) in the padded grid (lines 91-92).
GridSize == 2

\* A position is <<row, col>>; the grid has the rows and columns 0 to
\* GridSize + 1, the outer ones Outside (lines 48-63).
GridPositions == (0..(GridSize + 1)) \X (0..(GridSize + 1))
InnerPositions == (1..GridSize) \X (1..GridSize)
EmptyGrid ==
    [p \in GridPositions |-> IF p \in InnerPositions THEN "Safe"
                             ELSE "Outside"]

\* Position::surroundings (utils.rs:80-82), for a position inside the padding.
Surroundings(p) ==
    {<<p[1] - 1, p[2]>>, <<p[1], p[2] + 1>>, <<p[1] + 1, p[2]>>,
     <<p[1], p[2] - 1>>}

\* Lines 118-149: the tiles the breadth-first search pops, starting from the
\* start tile and going on through safe neighbours.
RECURSIVE Explored(_, _)
Explored(grid, seen) ==
    LET more == {q \in GridPositions :
                    /\ q \notin seen
                    /\ grid[q] = "Safe"
                    /\ \E p \in seen : q \in Surroundings(p)}
    IN  IF more = {} THEN seen ELSE Explored(grid, seen \cup more)

\* find_shortest_exit_path_len (lines 118-149) returns Some.
ExitPath(grid) ==
    <<GridSize, GridSize>> \in Explored(grid, {<<1, 1>>})

\* Lines 167-170 and 185-188: bytes from..=to become Corrupted; lines
\* 201-204: they become Safe.
SetTiles(grid, bytes, from, to, tile) ==
    [p \in GridPositions |->
        IF \E n \in DOMAIN bytes : from <= n /\ n <= to /\ bytes[n] = p
        THEN tile ELSE grid[p]]

\* An index of from..=to lies outside the Vec: the indexing panics.
OutOfBounds(bytes, from, to) == from <= to /\ to >= Len0(bytes)

\* usize arithmetic: the result of an operation, given its exact value.
\* Outside the range of usize it panics when overflow checks are on and
\* wraps when they are off.
Overflows(x) == x < 0 \/ x >= 2 ^ count_bits
Wrap(x) == x % (2 ^ count_bits)

\* Most bytes still to fall.
MaxBytes == 4

\* The lists of bytes still to fall: distinct positions of the inner grid,
\* at least one (the searched byte is among them), indexed from 0.
ByteLists ==
    {b \in UNION {[0..(n - 1) -> InnerPositions] : n \in 1..MaxBytes} :
        \A x, y \in DOMAIN b : x # y => b[x] # b[y]}

\* MemorySpace::new has run on a file with no byte fallen yet; the crate is
\* built with or without overflow checks.
Day18Init ==
    /\ memory_space \in
          {[grid |-> EmptyGrid, remaining_corrupted_bytes |-> b] :
              b \in ByteLists}
    /\ search = [pc |-> "start", lo |-> 0, hi |-> 0, mi |-> 0, ret |-> <<>>]
    /\ count_bits = WideBits
    /\ overflow_checks \in BOOLEAN
    /\ ExecIdle
    /\ NoTrie
    /\ Day14Idle
    /\ Day6Idle
    /\ Day19Idle

\* Lines 163, 182, 198: mi = (lo + hi) / 2.
Mid(lo, hi) == (lo + hi) \div 2

\* Lines 161-171: lo, hi, mi and the first half of the bytes corrupted.
SearchStart ==
    /\ search.pc = "start"
    /\ LET bytes == memory_space.remaining_corrupted_bytes
           lo == 0
           hi == Len0(bytes) - 1
           mi == Mid(lo, hi)
       IN  /\ search' = [search EXCEPT !.pc = "check", !.lo = lo,
                                       !.hi = hi, !.mi = mi]
           /\ memory_space' =
                 [memory_space EXCEPT
                    !.grid = SetTiles(@, bytes, lo, mi, "Corrupted")]
    /\ UNCHANGED outsideDay18

\* Lines 174-178: a path exists and lo == hi: the next byte is returned, if
\* there is one (else the indexing panics).
PathAtEnd ==
    /\ search.pc = "check"
    /\ ExitPath(memory_space.grid)
    /\ search.lo = search.hi
    /\ LET bytes == memory_space.remaining_corrupted_bytes
       IN  IF search.lo + 1 \in DOMAIN bytes
           THEN search' = [search EXCEPT !.pc = "returned",
                                         !.ret = bytes[search.lo + 1]]
           ELSE search' = [search EXCEPT !.pc = "panicked"]
    /\ UNCHANGED <<outsideDay18, memory_space>>

\* Lines 181-189: a path exists and lo # hi: the search goes on above mi and
\* the bytes lo..=mi become corrupted.
PathGoUp ==
    /\ search.pc = "check"
    /\ ExitPath(memory_space.grid)
    /\ search.lo # search.hi
    /\ LET bytes == memory_space.remaining_corrupted_bytes
           lo == search.mi + 1
           mi == Mid(lo, search.hi)
       IN  IF OutOfBounds(bytes, lo, mi)
           THEN /\ search' = [search EXCEPT !.pc = "panicked"]
                /\ UNCHANGED memory_space
           ELSE /\ search' = [search EXCEPT !.lo = lo, !.mi = mi]
                /\ memory_space' =
                      [memory_space EXCEPT
                         !.grid = SetTiles(@, bytes, lo, mi, "Corrupted")]
    /\ UNCHANGED outsideDay18

\* Lines 192-194: no path and lo == hi: this byte is returned.
BlockedAtEnd ==
    /\ search.pc = "check"
    /\ ~ExitPath(memory_space.grid)
    /\ search.lo = search.hi
    /\ LET bytes == memory_space.remaining_corrupted_bytes
       IN  IF search.lo \in DOMAIN bytes
           THEN search' = [search EXCEPT !.pc = "returned",
                                         !.ret = bytes[search.lo]]
           ELSE search' = [search EXCEPT !.pc = "panicked"]
    /\ UNCHANGED <<outsideDay18, memory_space>>

\* Lines 197-205: no path and lo # hi: hi = mi - 1, the new mi, and the bytes
\* mi + 1..=hi + 1 become safe again.  `mi - 1` leaves the range of usize
\* when mi is 0, `lo + hi` and `hi + 1` may do so after a wrap.
BlockedGoDown ==
    /\ search.pc = "check"
    /\ ~ExitPath(memory_space.grid)
    /\ search.lo # search.hi
    /\ LET bytes == memory_space.remaining_corrupted_bytes
           hi == Wrap(search.mi - 1)
           mi == Wrap(search.lo + hi) \div 2
           to == Wrap(hi + 1)
       IN  IF \/ /\ overflow_checks
                 /\ \/ Overflows(search.mi - 1)
                    \/ Overflows(search.lo + hi)
                    \/ Overflows(hi + 1)
              \/ OutOfBounds(bytes, mi + 1, to)
           THEN /\ search' = [search EXCEPT !.pc = "panicked"]
                /\ UNCHANGED memory_space
           ELSE /\ search' = [search EXCEPT !.hi = hi, !.mi = mi]
                /\ memory_space' =
                      [memory_space EXCEPT
                         !.grid = SetTiles(@, bytes, mi + 1, to, "Safe")]
    /\ UNCHANGED outsideDay18

Day18Next ==
    \/ SearchStart
    \/ PathAtEnd
    \/ PathGoUp
    \/ BlockedAtEnd
    \/ BlockedGoDown

\* The one thread of the search runs as long as it can.
Day18Spec == Day18Init /\ [][Day18Next]_vars /\ WF_vars(Day18Next)

\* With the bytes 0..=n corrupted (and no other) no path is left.
BlockedAfter(n) ==
    LET bytes == memory_space.remaining_corrupted_bytes
    IN  ~ExitPath(SetTiles(EmptyGrid, bytes, 0, n, "Corrupted"))

HasBlockingByte ==
    \E n \in DOMAIN memory_space.remaining_corrupted_bytes : BlockedAfter(n)

\* The index of the first byte whose fall cuts the exit off.
FirstBlocking ==
    CHOOSE n \in DOMAIN memory_space.remaining_corrupted_bytes :
        BlockedAfter(n) /\ \A k \in 0..(n - 1) : ~BlockedAfter(k)

\* C23: on every list that holds a blocking byte the search neither fails on
\* an underflow or an out-of-range index nor returns another byte than the
\* first blocking one, and at every path check exactly the bytes 0..=mi are
\* corrupted.
C23_SearchFindsFirstBlockingByte ==
    HasBlockingByte =>
        /\ search.pc # "panicked"
        /\ search.pc = "returned" =>
              search.ret = memory_space.remaining_corrupted_bytes[FirstBlocking]
        /\ search.pc = "check" =>
              memory_space.grid =
                 SetTiles(EmptyGrid, memory_space.remaining_corrupted_bytes,
                          0, search.mi, "Corrupted")

\* =========================================================================
\* Day 6: LabSimulation::new, Guard::patrol and run_guard_patrol
\* (day6/mod.rs:58-199)
\* =========================================================================
\* Most rows and most columns of the map in the file, and most '#' in it.
MaxSide == 3
MaxObstacles == 4

\* LabSimulation::new (lines 119-170) on a map of `rows` lines of `cols`
\* characters: '^' at guard_position, '#' at the positions of `obstructed`,
\* '.' elsewhere (positions count from 1: the padding is row 0 and column 0).
\* Every line becomes a row with an Outside tile on each side; lab_size is
\* lab.len() - 1 (line 150), the number of lines, and the top and the bottom
\* row get lab_size + 2 Outside tiles (lines 153, 156).
PaddedLab(rows, cols, guard_position, obstructed) ==
    LET lab_size == rows
    IN  [row \in 0..(rows + 1) |->
            IF row = 0 \/ row = rows + 1
            THEN [col \in 0..(lab_size + 1) |-> "Outside"]
            ELSE [col \in 0..(cols + 1) |->
                    IF col = 0 \/ col = cols + 1 THEN "Outside"
                    ELSE IF <<row, col>> = guard_position THEN "Visited"
                    ELSE IF <<row, col>> \in obstructed THEN "Obstructed"
                    ELSE "Unvisited"]]

\* Lines 158-169: the guard looks Up, its tile is visited and its state is
\* recorded.
NewLabSimulation(rows, cols, guard_position, obstructed) ==
    LET guard == [position |-> guard_position, direction |-> "Up"]
    IN  [lab |-> PaddedLab(rows, cols, guard_position, obstructed),
         guard |-> guard,
         visited_tiles |-> {guard_position},
         previous_guards |-> {guard}]

\* The maps: rows x cols characters, one of them '^', at most MaxObstacles
\* of them '#'.
LabInit ==
    /\ \E rows \in 1..MaxSide, cols \in 1..MaxSide :
          \E guard_position \in (1..rows) \X (1..cols) :
             \E obstructed \in
                   SUBSET (((1..rows) \X (1..cols)) \ {guard_position}) :
                /\ Cardinality(obstructed) <= MaxObstacles
                /\ lab_simulation =
                      NewLabSimulation(rows, cols, guard_position, obstructed)
    /\ lpc = "patrol"
    /\ ExecIdle
    /\ TrieIdle
    /\ Day14Idle
    /\ Day18Idle
    /\ Day19Idle

\* lab[position.row][position.col] is an element of the Vec of Vecs: indexing
\* outside it panics.
InLab(lab, position) ==
    /\ position[1] \in DOMAIN lab
    /\ position[2] \in DOMAIN lab[position[1]]

\* Lines 68-86: the tile ahead, and the tile and the direction to the right.
Ahead(guard) ==
    LET row == guard.position[1]
        col == guard.position[2]
    IN  CASE guard.direction = "Up" -> <<row - 1, col>>
          [] guard.direction = "Right" -> <<row, col + 1>>
          [] guard.direction = "Down" -> <<row + 1, col>>
          [] guard.direction = "Left" -> <<row, col - 1>>

TurnRight(direction) ==
    CASE direction = "Up" -> "Right"
      [] direction = "Right" -> "Down"
      [] direction = "Down" -> "Left"
      [] direction = "Left" -> "Up"

Alternative(guard) == Ahead([guard EXCEPT !.direction = TurnRight(@)])

\* Guard::patrol (lines 62-106): what it returns ("true", "false", or
\* "panic" when an index is out of range) and the guard it leaves.  Both
\* tiles are read (lines 88-89) before either is looked at.
Patrol(guard, lab) ==
    LET new_position == Ahead(guard)
        alternative_new_position == Alternative(guard)
        alternative_new_direction == TurnRight(guard.direction)
        Stay(returned) == [returned |-> returned, guard |-> guard]
    IN  IF lab[guard.position[1]][guard.position[2]] = "Outside"
        THEN Stay("false")
        ELSE IF ~InLab(lab, new_position)
                \/ ~InLab(lab, alternative_new_position)
        THEN Stay("panic")
        ELSE LET new_tile == lab[new_position[1]][new_position[2]]
                 alternative_new_tile ==
                    lab[alternative_new_position[1]]
                       [alternative_new_position[2]]
             IN  IF new_tile = "Outside" THEN Stay("false")
                 ELSE IF new_tile # "Obstructed"
                 THEN [returned |-> "true",
                       guard |-> [guard EXCEPT !.position = new_position]]
                 ELSE IF alternative_new_tile = "Outside" THEN Stay("false")
                 ELSE IF alternative_new_tile = "Obstructed"
                 THEN [returned |-> "true",
                       guard |-> [guard EXCEPT
                                    !.direction = alternative_new_direction]]
                 ELSE [returned |-> "true",
                       guard |-> [position |-> alternative_new_position,
                                  direction |-> alternative_new_direction]]

\* Line 183, patrol() reads a tile that does not exist: the thread panics.
PatrolPanics ==
    /\ lpc = "patrol"
    /\ Patrol(lab_simulation.guard, lab_simulation.lab).returned = "panic"
    /\ lpc' = "panicked"
    /\ UNCHANGED <<outsideDay6, lab_simulation>>

\* Lines 183 and 198: patrol() is false, Some(visited_tiles) is returned.
GuardLeaves ==
    /\ lpc = "patrol"
    /\ Patrol(lab_simulation.guard, lab_simulation.lab).returned = "false"
    /\ lpc' = "returned_some"
    /\ UNCHANGED <<outsideDay6, lab_simulation>>

\* Line 189: whether the guard's state counts as seen before.
SeenBefore(guard) == guard \in lab_simulation.previous_guards

\* Lines 183-195, one iteration that stays in the loop: the guard has moved
\* or turned; a tile it enters for the first time is recorded and marked,
\* and its state is recorded.
GuardSteps ==
    /\ lpc = "patrol"
    /\ LET patrol == Patrol(lab_simulation.guard, lab_simulation.lab)
           guard == patrol.guard
           row == guard.position[1]
           col == guard.position[2]
           unvisited == lab_simulation.lab[row][col] = "Unvisited"
       IN  /\ patrol.returned = "true"
           /\ unvisited \/ ~SeenBefore(guard)
           /\ lab_simulation' =
                 [lab_simulation EXCEPT
                    !.guard = guard,
                    !.visited_tiles =
                        IF unvisited THEN @ \cup {guard.position} ELSE @,
                    !.lab = IF unvisited
                            THEN [@ EXCEPT ![row][col] = "Visited"] ELSE @,
                    !.previous_guards = @ \cup {guard}]
    /\ UNCHANGED <<outsideDay6, lpc>>

\* Lines 188-192: the tile was visited before and the guard's state is among
\* the recorded ones: None is returned.
LoopFound ==
    /\ lpc = "patrol"
    /\ LET patrol == Patrol(lab_simulation.guard, lab_simulation.lab)
           guard == patrol.guard
       IN  /\ patrol.returned = "true"
           /\ lab_simulation.lab[guard.position[1]][guard.position[2]]
                 # "Unvisited"
           /\ SeenBefore(guard)
           /\ lab_simulation' = [lab_simulation EXCEPT !.guard = guard]
    /\ lpc' = "returned_none"
    /\ UNCHANGED outsideDay6

LabNext == PatrolPanics \/ GuardLeaves \/ GuardSteps \/ LoopFound

\* The one thread of the patrol runs as long as it can.
LabSpec == LabInit /\ [][LabNext]_vars /\ WF_vars(LabNext)

\* The number of characters of a line of the map.
MapCols == Len0(lab_simulation.lab[1]) - 2

\* C24: the lab is padded all around: every row, the top and the bottom one
\* included, has as many tiles as a line of the map has characters plus two,
\* and the patrol never reads a tile that does not exist.
C24_LabPaddedAllAround ==
    /\ \A row \in DOMAIN lab_simulation.lab :
          Len0(lab_simulation.lab[row]) = MapCols + 2
    /\ lpc # "panicked"

\* C27: run_guard_patrol terminates on every lab, with the visited tiles
\* when the guard leaves and with None when it is caught in a loop.
C27_PatrolTerminates == <>(lpc \in {"returned_some", "returned_none"})

\* =========================================================================
\* Day 19: TowelManager::count_all_possible_designs (day19/mod.rs:64-75)
\* =========================================================================
\* Most desired designs in the file.
MaxDesigns == 2

\* The first line of the file: no pattern, the patterns a, aa, or the
\* patterns a, b, ab.
PatternLists == {<<>>, FibPatterns, AbPatterns}

\* TowelManager::new (lines 42-62) has built the trie of the patterns and
\* collected the designs; part 1 passes true, part 2 passes false (lines
\* 85, 93).
Day19Init ==
    /\ \E patterns \in PatternLists :
          \E desired_designs \in SeqsUpTo(FreeWords, MaxDesigns) :
             towel_manager =
                [patterns |->
                    FromIter([k \in {0} |-> TrieEntryDefault], patterns),
                 desired_designs |-> desired_designs]
    /\ \E count_unique_designs \in BOOLEAN :
          counting = [pc |-> "loop", done |-> 0,
                      count_unique_designs |-> count_unique_designs,
                      count_possible_designs |-> 0]
    /\ ExecIdle
    /\ TrieIdle
    /\ Day14Idle
    /\ Day18Idle
    /\ Day6Idle

\* Line 68: the count the trie returns for the next design.
NextCount ==
    CountAllWordArrangements(
        towel_manager.patterns,
        towel_manager.desired_designs[counting.done + 1])

\* Line 69: what a design with a count of 1 or more adds in part 1.
Unclamped(count) == count
Clamped(count) == 1

\* Lines 67-69, the first arm: the count is 1 or more and unique designs are
\* counted.
CountUnique ==
    /\ counting.pc = "loop"
    /\ counting.done < Len(towel_manager.desired_designs)
    /\ NextCount >= 1
    /\ counting.count_unique_designs
    /\ counting' = [counting EXCEPT
                      !.count_possible_designs = @ + Clamped(NextCount),
                      !.done = @ + 1]
    /\ UNCHANGED <<outsideDay19, towel_manager>>

\* Lines 67-70, the second arm: every other case adds the count.
CountAll ==
    /\ counting.pc = "loop"
    /\ counting.done < Len(towel_manager.desired_designs)
    /\ ~(NextCount >= 1 /\ counting.count_unique_designs)
    /\ counting' = [counting EXCEPT
                      !.count_possible_designs = @ + NextCount,
                      !.done = @ + 1]
    /\ UNCHANGED <<outsideDay19, towel_manager>>

\* Lines 67 and 74: no design is left, count_possible_designs is returned.
CountReturn ==
    /\ counting.pc = "loop"
    /\ counting.done = Len(towel_manager.desired_designs)
    /\ counting' = [counting EXCEPT !.pc = "returned"]
    /\ UNCHANGED <<outsideDay19, towel_manager>>

Day19Next == CountUnique \/ CountAll \/ CountReturn

Day19Spec == Day19Init /\ [][Day19Next]_vars

\* The patterns of the towel manager: the sequences its trie holds.
PatternsOf(entries) == {w \in FreeWords : Member(entries, w)}

\* The number of arrangements of design n, counted from the patterns.
Arrangements(n) ==
    Ways(PatternsOf(towel_manager.patterns),
         towel_manager.desired_designs[n])

\* What part 1 and part 2 are to return on the designs of the file.
PossibleDesigns ==
    Cardinality({n \in 1..Len(towel_manager.desired_designs) :
                    Arrangements(n) > 0})
RECURSIVE ArrangementsUpTo(_)
ArrangementsUpTo(n) ==
    IF n = 0 THEN 0 ELSE Arrangements(n) + ArrangementsUpTo(n - 1)
AllArrangements == ArrangementsUpTo(Len(towel_manager.desired_designs))

\* C28: count_all_possible_designs(true) returns the number of designs with
\* at least one arrangement, count_all_possible_designs(false) the sum of the
\* designs' arrangement counts; the former is at most the number of designs
\* and at most the latter.
C28_DesignCounts ==
    counting.pc = "returned" =>
        /\ counting.count_possible_designs =
              IF counting.count_unique_designs THEN PossibleDesigns
              ELSE AllArrangements
        /\ counting.count_unique_designs =>
              /\ counting.count_possible_designs
                    <= Len(towel_manager.desired_designs)
              /\ counting.count_possible_designs <= AllArrangements

\* Part 1 on the patterns a, aa and the designs aa (two arrangements) and b
\* (none).
C28_Witness ==
    /\ counting.pc = "returned"
    /\ counting.count_unique_designs
    /\ towel_manager.desired_designs = << <<White, White>>, <<Blue>> >>
    /\ Arrangements(1) = 2
    /\ Arrangements(2) = 0
    /\ counting.count_possible_designs = 1

\* =========================================================================
\* The table of count_all_word_arrangements during one query
\* =========================================================================
\* One trie and one query on it: TrieSpec without a second query.
DpNext ==
    \/ FromIterNextFree \/ FromIterNextScripted \/ AddWordChar \/ AddWordEnd
    \/ FromIterEnd \/ QueryFirst \/ OuterSkip \/ OuterEnter \/ OuterDone
    \/ InnerSome \/ InnerNone \/ InnerDone

DpSpec == TrieSpecInit /\ [][DpNext]_vars

\* word[from + 1..to] (the code's word[from..to]) is an inserted pattern.
IsPattern(from, to) ==
    from < to /\ SubSeq(word, from + 1, to) \in inserted

\* What the starts in `starts` have to add to the table entry k: for each of
\* them from which a pattern ends at k, the number of partitions of the
\* symbols before it.
RECURSIVE Contributions(_, _)
Contributions(starts, k) ==
    IF starts = {} THEN 0
    ELSE LET j == CHOOSE x \in starts : TRUE
         IN  (IF IsPattern(j, k) THEN TrueCount(inserted, word, j) ELSE 0)
             + Contributions(starts \ {j}, k)

\* The table while the outer loop is at start_prefix: the entries up to it
\* are final, the later ones hold what the earlier starts added, and, inside
\* the inner walk, what this start has added up to end_prefix.
TableAtStart ==
    LET reach == count_arrangements_reaching_index
        s == start_prefix
    IN  /\ \A k \in 0..s : reach[k] = TrueCount(inserted, word, k)
        /\ \A k \in (s + 1)..Len(word) :
              reach[k] = Contributions(0..(s - 1), k)
                         + (IF tpc = "inner" /\ k <= end_prefix
                               /\ IsPattern(s, k)
                            THEN reach[s] ELSE 0)

\* A step of the query leaves the table entries up to start_prefix alone.
KeepsFinalEntries ==
    tpc \in {"outer", "inner"} =>
        \A k \in 0..start_prefix :
            count_arrangements_reaching_index'[k] =
                count_arrangements_reaching_index[k]

\* The step of the outer loop at a start whose table entry is 0 leaves the
\* whole table alone.
ZeroStartAddsNothing ==
    (/\ tpc = "outer"
     /\ start_prefix < Len(word)
     /\ count_arrangements_reaching_index[start_prefix] = 0) =>
        count_arrangements_reaching_index' = count_arrangements_reaching_index

\* C26: when the outer loop begins start index s, reach[s] is the number of
\* partitions of the first s symbols and no later step changes reach[k] for
\* k <= s; a start with reach[s] = 0 adds nothing; and the inner walk from s
\* adds reach[s] to reach[e + 1] exactly once for each e such that
\* word[s..=e] is a pattern.
C26_TableFinalUpToStart ==
    /\ [](tpc \in {"outer", "inner"} => TableAtStart)
    /\ [][KeepsFinalEntries]_vars
    /\ [][ZeroStartAddsNothing]_vars

\* The patterns a, aa and the target aaa when the outer loop begins start 2:
\* the table holds 1, 1, 2 and, for the whole target, the 1 that start 1
\* added.
C26_Witness ==
    /\ tpc = "outer"
    /\ inserted = {<<White>>, <<White, White>>}
    /\ word = <<White, White, White>>
    /\ start_prefix = 2
    /\ count_arrangements_reaching_index =
          [k \in 0..3 |-> IF k = 2 THEN 2 ELSE 1]

\* add_word on the empty word changes the root's terminal flag and nothing
\* else: the arena keeps its entries and their links.
EmptyWordOnlyFlagsRoot ==
    (tpc = "add_word" /\ adding = <<>>) =>
        trie_entries' = [trie_entries EXCEPT ![0].terminal = TRUE]

\* How far a query has come: the starts it is done with and, inside the
\* inner walk, the ends it is done with.
QueryMeasure ==
    IF tpc = "returned" THEN (Len(word) + 1) * (Len(word) + 2)
    ELSE start_prefix * (Len(word) + 2)
         + (IF tpc = "inner" THEN 1 + end_prefix ELSE 0)

\* Every step of a query brings it further.
QueryAdvances ==
    tpc \in {"outer", "inner"} => QueryMeasure' > QueryMeasure

\* C30: inserting the empty pattern only sets the root's terminal flag and
\* creates no node; no query consults that flag: whatever the patterns and
\* the target, the query returns what it returns on the trie of the patterns
\* without the empty one and on the trie of the patterns with it; and the
\* query terminates: it can always take a step, and every step brings it
\* further towards the bounded end of its loops.
C30_EmptyPatternIsInert ==
    /\ [][EmptyWordOnlyFlagsRoot]_vars
    /\ [](trie_entries[0].terminal <=> <<>> \in inserted)
    /\ [](tpc = "returned" =>
            /\ result = CountAllWordArrangements(
                            Canonical(inserted \ {<<>>}), word)
            /\ result = CountAllWordArrangements(
                            Canonical(inserted \cup {<<>>}), word))
    /\ [](tpc \in {"outer", "inner"} =>
            /\ ENABLED DpNext
            /\ QueryMeasure < (Len(word) + 1) * (Len(word) + 2))
    /\ [][QueryAdvances]_vars

\* The empty pattern and a were inserted and the query on aa has returned 1.
C30_Witness ==
    /\ tpc = "returned"
    /\ inserted = {<<>>, <<White>>}
    /\ trie_entries[0].terminal
    /\ Len0(trie_entries) = 2
    /\ word = <<White, White>>
    /\ result = 1

====
